---------------------------- MODULE Spec2Model ----------------------------
(***************************************************************************)
(* Card image generation pipeline (scripts/card_image_gen).                *)
(*                                                                         *)
(* The model follows one run of generate_cards._run: target selection      *)
(* (_get_target_cards), the dry run, and generate_batch with, per entry,   *)
(* generate_card -> _generate_with_retry -> ComfyUIClient.generate         *)
(* (queue_prompt, wait_for_completion, get_image) -> process_and_save.     *)
(* The program is a single asyncio task: a state of the model is a         *)
(* suspension point of that task, an action is the code that runs between  *)
(* two suspension points together with the answer of the backend or of     *)
(* the filesystem, which is the nondeterministic part.                     *)
(*                                                                         *)
(* Conventions.  An Optional value of the code is a set with at most one   *)
(* element ({} is None; argparse's falsy values count as None).  A card is *)
(* represented by the number of its id in CardIds, ids being unique in the *)
(* catalog; its other fields are in card_data.  A prompt is the list of    *)
(* the parts build_prompt joins.  Time in wait_for_completion is counted   *)
(* in ticks of 0.5 s, the default poll_interval, which is exact in binary  *)
(* floating point.                                                         *)
(***************************************************************************)
EXTENDS Integers, Sequences, FiniteSets, TLC

VARIABLES
    cards,          \* CardImageGenerator.cards: the catalog, a sequence of ids
    card_data,      \* the other fields of each catalog entry, by id
    files,          \* the paths <output_dir>/<id>.webp that exist
    args,           \* argparse.Namespace: card, missing, start, end, dry_run, seed
    max_retries,    \* config.MAX_RETRIES as _generate_with_retry reads it
    pc,             \* suspension point of the task
    status,         \* how the process ends: running, ok, exit0, exit1, error
    targets,        \* the list handed to generate_batch (or shown by the dry run)
    i,              \* generate_batch: enumerate index, from 1
    results,        \* generate_batch: results, a sequence of paths
    seed,           \* generate_card: seed of the entry, {} before it is fixed
    attempt,        \* _generate_with_retry: loop variable, from 0
    last_error,     \* _generate_with_retry: last_error
    prompt_id,      \* generate: prompt_id returned by queue_prompt
    poll_interval,  \* wait_for_completion: parameter
    timeout,        \* wait_for_completion: parameter
    elapsed,        \* wait_for_completion: elapsed
    history,        \* wait_for_completion: the response that ended the loop
    result,         \* generate: result descriptor, {} before completion
    image_data,     \* bytes returned by generate, {} before
    exc,            \* the exception in flight, {} when none
    \* observation of the run (what a stub backend and a stub clock would record)
    calls,          \* client.generate invocations for the current entry
    failures,       \* client.generate invocations of the current entry that raised
    reported,       \* "Retry ..." lines printed for the current entry
    delays,         \* asyncio.sleep delays of _generate_with_retry, current entry
    submits,        \* POST /prompt requests of the current generate call
    fetches,        \* GET /view requests of the current generate call
    last_req,       \* the last request sent to the backend
    started,        \* ids for which generate_card was entered, in order
    saved,          \* ids for which process_and_save returned, in order
    failed,         \* ids whose exception generate_batch caught, in order
    inflight,       \* entries whose generate_card is entered and not yet left
    pauses,         \* inter-item sleeps taken by generate_batch
    shown,          \* prompts printed by the dry run, in order
    summary,        \* the "Done. Generated x/y" line, {} before it is printed
    written,        \* paths img.save has written to in this run
    gen_failed      \* ids whose _generate_with_retry raised, in order

vars == <<cards, card_data, files, args, max_retries, pc, status, targets, i,
          results, seed, attempt, last_error, prompt_id, poll_interval,
          timeout, elapsed, history, result, image_data, exc, calls, failures,
          reported, delays, submits, fetches, last_req, started, saved,
          failed, inflight, pauses, shown, summary, written, gen_failed>>

---------------------------------------------------------------------------
(* Bounds of the model *)

\* Largest catalog of a pipeline run (Spec).
MaxCards == 2

\* Largest catalog of a selection run (SpecSelect).
MaxCatalog == 3

\* Largest attempt budget of a retry run (SpecRetry), where config.MAX_RETRIES
\* is set to each value from 1 up to this one.
MaxBudget == 4

\* wait_for_completion's timeout as generate passes it, in ticks.  The code's
\* default is 300.0 s, 600 ticks (DEFAULT_TIMEOUT below, which SpecWait
\* runs); the whole pipeline is explored with this shorter budget, on which
\* no statement checked under Spec depends.
PipelineTimeout == 3

---------------------------------------------------------------------------
(* Program constants *)

MAX_RETRIES == 3
RETRY_DELAY == 2
BATCH_DELAY == 1
\* wait_for_completion(prompt_id, poll_interval=0.5, timeout=300.0), in ticks
DEFAULT_POLL_INTERVAL == 1
DEFAULT_TIMEOUT == 600

---------------------------------------------------------------------------
(* Values *)

TheOne(S) == CHOOSE x \in S : TRUE

Range(s) == {s[k] : k \in 1..Len(s)}

\* Exceptions.  kind is the class of the failure, at the number (from 1) of the
\* client.generate call of the current entry that raised it (0: raised outside
\* client.generate).  Kinds, with the code's classes:
\*   SubmissionError  queue_prompt: raise_for_status, a refused connection, or
\*                    KeyError on a response without "prompt_id"
\*   ClientError      wait_for_completion: the GET or resp.json() failed
\*   TimeoutError     wait_for_completion: TimeoutError
\*   FetchError       get_image: raise_for_status or a failed GET
\*   RuntimeError     generate: "No image found in generation output"
\*   IndexError       generate: output["images"][0] on an empty list
\*   DecodeError      process_and_save: Image.open failed
\*   WriteError       process_and_save: img.save failed
Err(kind, at) == [kind |-> kind, at |-> at]

\* Job ids.  The backend names the job of the submit of attempt a of entry n;
\* OtherJob is a job of somebody else.
JobFor(n, a) == <<n, a>>
NoJob == <<0, 0>>
OtherJob == <<0, 1>>

\* Output entries of a result descriptor: has_images is '"images" in output'.
NoImagesField == [has_images |-> FALSE, images |-> <<>>]
Images(fs) == [has_images |-> TRUE, images |-> fs]

\* The "outputs" of a result descriptor, in the order outputs.values() walks
\* them (a descriptor without "outputs" reads as the empty one).
Descriptors ==
    { <<>>,
      <<NoImagesField>>,
      <<Images(<<>>)>>,
      <<Images(<<"a.png">>)>>,
      <<NoImagesField, Images(<<"b.png", "a.png">>)>>,
      <<Images(<<>>), Images(<<"b.png">>)>>,
      <<Images(<<"a.png">>), Images(<<"b.png">>)>> }

\* A seed is an integer written in two 16-bit halves, <<hi, lo>> standing
\* for hi * 2^16 + lo (the range of random.randint(0, 2**32 - 1) exceeds the
\* integers of the model checker).
SeedOf(hi, lo) == <<hi, lo>>
SeedHalf == 2 ^ 16

---------------------------------------------------------------------------
(* prompt_builder *)

\* The ids of the catalog entries of the model, as the catalog writes them:
\* a card is represented by its number in this list.  Some are keys of
\* _NAME_OVERRIDES, some are not.
CardIds == <<"001", "066", "B02", "042", "123", "B05">>

\* card["id"]
IdText(c) == CardIds[c]

BASE_STYLE ==
    "photorealistic sci-fi digital art, high detail, professional concept art, "
    \o "no text, no words, no lettering, no watermarks, "
    \o "astronomically accurate, only one sun in the sky, "
    \o "no duplicate planets or moons, "
    \o "planets and moons appear small and distant high in the sky"

_PERSPECTIVES ==
    << "wide panoramic shot", "cinematic close-up", "dramatic low angle",
       "bird's eye view", "first-person perspective",
       "over-the-shoulder view", "extreme wide establishing shot",
       "intimate macro detail" >>

_LIGHTING ==
    << "golden hour warm lighting", "cool blue twilight",
       "harsh dramatic shadows", "soft diffused glow",
       "neon-lit cyberpunk ambiance", "stark high-contrast chiaroscuro",
       "ethereal backlit silhouette", "warm amber firelight" >>

_COLOR_PALETTES ==
    << "warm orange and rust tones", "cool blue and silver palette",
       "vibrant greens and teals", "deep purple and violet hues",
       "fiery red and gold spectrum", "muted earth tones",
       "icy white and pale blue", "rich amber and bronze" >>

TAG_HINTS ==
    [building |-> "futuristic industrial structures",
     power |-> "energy infrastructure",
     science |-> "scientific equipment",
     microbe |-> "bioluminescent microorganisms",
     animal |-> "alien fauna",
     plant |-> "lush vegetation",
     space |-> "deep space backdrop",
     earth |-> "tiny Earth far away high in the sky",
     jovian |-> "small distant Jupiter high in the sky",
     venus |-> "small distant Venus high in the sky",
     city |-> "domed city",
     mars |-> "red Martian terrain",
     moon |-> "lunar surface",
     clone |-> "genetic engineering",
     wild |-> "alien wilderness",
     event |-> "celestial phenomenon"]

CARD_TYPE_MOOD ==
    [automated |-> "industrial scene",
     active |-> "dynamic scene",
     event |-> "dramatic moment",
     corporation |-> "corporate power",
     prelude |-> "early colonization"]

_NAME_OVERRIDES ==
    ("066" :> "territorial marker planted on vast alien landscape, flag on rocky hilltop")
    @@ ("068" :> "corporate funding ceremony on Mars, executives shaking hands")
    @@ ("098" :> "luxurious tropical paradise colony under a glass dome, palm trees and pools")
    @@ ("123" :> "massive industrial manufacturing complex, smokestacks and conveyor belts")
    @@ ("145" :> "geothermal tectonic energy harvesting plant, glowing fissures in the ground")
    @@ ("B02" :> "eco-friendly green corporation campus surrounded by forests")
    @@ ("B05" :> "futuristic invention laboratory, holographic blueprints floating in air")
    @@ ("B09" :> "lightning-powered energy corporation, massive tesla coils crackling with electricity")
    @@ ("P05" :> "biodome ecosystem with thriving plants and wildlife under a protective shell")
    @@ ("T02" :> "exiled political figure walking away from a grand government building")
    @@ ("T09" :> "public relations command center, wall of holographic screens showing broadcasts")
    @@ ("T10" :> "festive crowd gathering at a Martian colony, fireworks in the dusty sky")
    @@ ("XC5" :> "sleek corporate skyscraper overlooking a volcanic Martian mountain at twilight")

\* sep.join(parts) for a list of strings.
RECURSIVE Join(_, _)
Join(parts, sep) ==
    IF parts = <<>> THEN ""
    ELSE IF Len(parts) = 1 THEN parts[1]
    ELSE parts[1] \o sep \o Join(Tail(parts), sep)

\* The three indexes _variety_for_card derives from the MD5 digest h of the
\* id, <<h % 8, (h >> 8) % 8, (h >> 16) % 8>>, for the ids of CardIds.
VarietyIndex ==
    ("001" :> <<7, 3, 6>>) @@ ("066" :> <<0, 7, 1>>) @@ ("B02" :> <<6, 4, 3>>)
    @@ ("042" :> <<0, 4, 1>>) @@ ("123" :> <<0, 3, 3>>) @@ ("B05" :> <<4, 1, 3>>)

\* _variety_for_card (the lists are indexed from 0 in the code).
_variety_for_card(card_id) ==
    LET h == VarietyIndex[card_id]
    IN  Join(<<_PERSPECTIVES[h[1] + 1], _LIGHTING[h[2] + 1],
               _COLOR_PALETTES[h[3] + 1]>>, ", ")

\* The descriptions of the model's entries: none, mechanics only, a sentence
\* shorter than five characters, and mechanics followed by a visual sentence.
Descriptions ==
    { "",
      "Gain 2 plants.",
      "Dust!",
      "Gain 2 steel. Sprawling robotic assembly lines hum under red skies." }

\* _extract_visual_concepts on those descriptions: the sentences matching
\* _MECHANIC_KEYWORDS are dropped ("Gain 2 ..." matches gain\s+\d), a result
\* shorter than five characters is dropped, the rest is cut at 100 characters.
_extract_visual_concepts(description) ==
    IF description
         = "Gain 2 steel. Sprawling robotic assembly lines hum under red skies."
    THEN "Sprawling robotic assembly lines hum under red skies"
    ELSE ""

\* card.get("type", "automated")
card_type(card) == IF card.type = {} THEN "automated" ELSE TheOne(card.type)

\* f"scene inspired by the concept of {name}, unnamed corporation headquarters"
corporation_clause(name) ==
    "scene inspired by the concept of " \o name
    \o ", unnamed corporation headquarters"

\* f"{name}, detailed scene of {name}"
literal_name_clause(name) == name \o ", detailed scene of " \o name

\* Variant: the type is looked at before the override table.
subject_clause_type_first(c) ==
    IF card_type(card_data[c]) = "corporation"
    THEN corporation_clause(card_data[c].name)
    ELSE IF IdText(c) \in DOMAIN _NAME_OVERRIDES
    THEN _NAME_OVERRIDES[IdText(c)]
    ELSE literal_name_clause(card_data[c].name)

\* build_prompt, the first part: the override, the corporation clause or the
\* literal name, in that order of precedence.
subject_clause(c) ==
    IF IdText(c) \in DOMAIN _NAME_OVERRIDES
    THEN _NAME_OVERRIDES[IdText(c)]
    ELSE IF card_type(card_data[c]) = "corporation"
    THEN corporation_clause(card_data[c].name)
    ELSE literal_name_clause(card_data[c].name)

\* [TAG_HINTS[t] for t in tags if t in TAG_HINTS]
RECURSIVE tag_hints(_)
tag_hints(tags) ==
    IF tags = <<>> THEN <<>>
    ELSE (IF Head(tags) \in DOMAIN TAG_HINTS
          THEN <<TAG_HINTS[Head(tags)]>> ELSE <<>>)
         \o tag_hints(Tail(tags))

\* build_prompt(card) for the card of id c: the list `parts`, which the code
\* returns joined by ", ".
build_prompt(c) ==
    LET card == card_data[c]
        concepts == _extract_visual_concepts(card.description)
        hints == tag_hints(card.tags)
    IN  <<subject_clause(c)>>
        \o (IF concepts # "" THEN <<concepts>> ELSE <<>>)
        \o (IF hints # <<>> THEN <<Join(hints, ", ")>> ELSE <<>>)
        \o (IF card_type(card) \in DOMAIN CARD_TYPE_MOOD
            THEN <<CARD_TYPE_MOOD[card_type(card)]>> ELSE <<>>)
        \o <<_variety_for_card(IdText(c)), BASE_STYLE>>

---------------------------------------------------------------------------
(* comfyui_client.build_flux_workflow *)

\* config: model files and generation parameters (the floats are written as
\* their literals).
UNET_MODEL == "flux1-schnell-fp8-e4m3fn.safetensors"
VAE_MODEL == "flux-vae-bf16.safetensors"
CLIP_L_MODEL == "clip_l.safetensors"
T5XXL_MODEL == "t5xxl_fp8_e4m3fn.safetensors"
IMAGE_WIDTH == 960
IMAGE_HEIGHT == 720
STEPS == 4
CFG == "1.0"
SAMPLER == "euler"
SCHEDULER == "simple"
GUIDANCE == "3.5"

\* Variant: the seed is cut to 16 bits on its way to the sampler
\* ('"seed": seed & 0xFFFF').
sampler_seed_masked(s) == SeedOf(0, s[2])

\* The "seed" input of the sampler node: the seed as it came.
sampler_seed(s) == s

\* build_flux_workflow(prompt, seed): the graph, by node id.
build_flux_workflow(prompt, s) ==
    ("1" :> [class_type |-> "UNETLoader",
             inputs |-> [unet_name |-> UNET_MODEL,
                         weight_dtype |-> "default"]])
    @@ ("2" :> [class_type |-> "DualCLIPLoader",
                inputs |-> [clip_name1 |-> CLIP_L_MODEL,
                            clip_name2 |-> T5XXL_MODEL,
                            type |-> "flux"]])
    @@ ("3" :> [class_type |-> "VAELoader",
                inputs |-> [vae_name |-> VAE_MODEL]])
    @@ ("4" :> [class_type |-> "CLIPTextEncodeFlux",
                inputs |-> [clip |-> <<"2", 0>>,
                            clip_l |-> prompt,
                            t5xxl |-> prompt,
                            guidance |-> GUIDANCE]])
    @@ ("5" :> [class_type |-> "EmptyLatentImage",
                inputs |-> [width |-> IMAGE_WIDTH,
                            height |-> IMAGE_HEIGHT,
                            batch_size |-> 1]])
    @@ ("6" :> [class_type |-> "KSampler",
                inputs |-> [model |-> <<"1", 0>>,
                            positive |-> <<"4", 0>>,
                            negative |-> <<"4", 0>>,
                            latent_image |-> <<"5", 0>>,
                            seed |-> sampler_seed(s),
                            steps |-> STEPS,
                            cfg |-> CFG,
                            sampler_name |-> SAMPLER,
                            scheduler |-> SCHEDULER,
                            denoise |-> "1.0"]])
    @@ ("7" :> [class_type |-> "VAEDecode",
                inputs |-> [samples |-> <<"6", 0>>,
                            vae |-> <<"3", 0>>]])
    @@ ("8" :> [class_type |-> "SaveImage",
                inputs |-> [images |-> <<"7", 0>>,
                            filename_prefix |-> "tfm_card"]])

\* Requests on the wire.  A submit is POST /prompt with the graph built from
\* the arguments of generate(prompt, seed), which are recorded with it.
NoReq == [op |-> "none"]
SubmitReq(p, s) ==
    [op |-> "submit", prompt |-> p, seed |-> s,
     workflow |-> build_flux_workflow(p, s)]
PollReq(job, at) == [op |-> "poll", job |-> job, at |-> at]
FetchReq(f) == [op |-> "fetch", file |-> f]

---------------------------------------------------------------------------
(* CardImageGenerator: catalog lookups *)

\* list.index / the scan of find_card: the first position (from 1) holding
\* id x, 0 when there is none.
FirstIndex(s, x) ==
    IF \E k \in 1..Len(s) : s[k] = x
    THEN CHOOSE k \in 1..Len(s) : s[k] = x /\ \A j \in 1..(k - 1) : s[j] # x
    ELSE 0

\* find_card: the card, or ValueError.
find_card(cs, card_id) ==
    IF FirstIndex(cs, card_id) = 0
    THEN [kind |-> "ValueError", cards |-> <<>>]
    ELSE [kind |-> "list", cards |-> <<cs[FirstIndex(cs, card_id)]>>]

\* self.output_dir / f"{card['id']}.webp"
OutputPath(c) == <<"output_dir", c, ".webp">>

\* Variant: the test inverted, 'if (...).exists()'.
IsMissingInverted(c, fs) == OutputPath(c) \in fs

\* The test of get_missing_cards' comprehension:
\* not (output_dir / f"{card['id']}.webp").exists()
IsMissing(c, fs) == OutputPath(c) \notin fs

\* get_missing_cards: the comprehension over self.cards, in catalog order.
RECURSIVE get_missing_cards(_, _)
get_missing_cards(cs, fs) ==
    IF cs = <<>> THEN <<>>
    ELSE (IF IsMissing(Head(cs), fs) THEN <<Head(cs)>> ELSE <<>>)
         \o get_missing_cards(Tail(cs), fs)

\* Python's s[lo:hi] for 0 <= lo, 0 <= hi <= len(s): positions lo+1..hi from 1.
Slice(s, lo, hi) == SubSeq(s, lo + 1, hi)

\* Variant: the end of the range excluded, 'end_idx = all_ids.index(args.end)'.
range_cards_exclusive(cs, start, end) ==
    IF \/ (start # {} /\ FirstIndex(cs, TheOne(start)) = 0)
       \/ (end # {} /\ FirstIndex(cs, TheOne(end)) = 0)
    THEN [kind |-> "ValueError", cards |-> <<>>]
    ELSE LET start_idx == IF start # {} THEN FirstIndex(cs, TheOne(start)) - 1 ELSE 0
             end_idx == IF end # {} THEN FirstIndex(cs, TheOne(end)) - 1 ELSE Len(cs)
         IN  [kind |-> "list", cards |-> Slice(cs, start_idx, end_idx)]

\* The range branch of _get_target_cards:
\*   start_idx = all_ids.index(args.start) if args.start else 0
\*   end_idx = all_ids.index(args.end) + 1 if args.end else len(all_ids)
\*   return gen.cards[start_idx:end_idx]
\* all_ids.index raises ValueError on an id that is not in the catalog.
range_cards(cs, start, end) ==
    IF \/ (start # {} /\ FirstIndex(cs, TheOne(start)) = 0)
       \/ (end # {} /\ FirstIndex(cs, TheOne(end)) = 0)
    THEN [kind |-> "ValueError", cards |-> <<>>]
    ELSE LET start_idx == IF start # {} THEN FirstIndex(cs, TheOne(start)) - 1 ELSE 0
             end_idx == IF end # {} THEN FirstIndex(cs, TheOne(end)) ELSE Len(cs)
         IN  [kind |-> "list", cards |-> Slice(cs, start_idx, end_idx)]

\* Variant: --missing is looked at before --card.
get_target_cards_missing_first(a, cs, fs) ==
    IF a.missing THEN
        (IF get_missing_cards(cs, fs) = <<>>
         THEN [kind |-> "exit0", cards |-> <<>>]
         ELSE [kind |-> "list", cards |-> get_missing_cards(cs, fs)])
    ELSE IF a.card # {} THEN find_card(cs, TheOne(a.card))
    ELSE IF a.start # {} \/ a.end # {} THEN range_cards(cs, a.start, a.end)
    ELSE [kind |-> "exit1", cards |-> <<>>]

\* _get_target_cards: the selected list, or how the selection ends the run
\* (exit0 and exit1 are sys.exit(0) and sys.exit(1), ValueError propagates).
get_target_cards(a, cs, fs) ==
    IF a.card # {} THEN find_card(cs, TheOne(a.card))
    ELSE IF a.missing THEN
        (IF get_missing_cards(cs, fs) = <<>>
         THEN [kind |-> "exit0", cards |-> <<>>]
         ELSE [kind |-> "list", cards |-> get_missing_cards(cs, fs)])
    ELSE IF a.start # {} \/ a.end # {} THEN range_cards(cs, a.start, a.end)
    ELSE [kind |-> "exit1", cards |-> <<>>]

---------------------------------------------------------------------------
(* Inputs *)

\* Catalogs of the pipeline runs: ids 1..n in catalog order, n up to MaxCards.
Catalogs == {[k \in 1..n |-> k] : n \in 0..MaxCards}

\* Catalogs of the selection runs: the ids 1..MaxCatalog, each at most once,
\* in any order.
AllCatalogs ==
    {c \in UNION {[1..n -> 1..MaxCatalog] : n \in 0..MaxCatalog} :
        \A j, k \in 1..Len(c) : j # k => c[j] # c[k]}

Opt(S) == {{}} \cup {{x} : x \in S}

\* The fields of the entries of CardIds, in the same order (the type may be
\* absent from an entry).
SampleEntries ==
    << [name |-> "Colonizer Training Camp", type |-> {"automated"},
        description |-> "", tags |-> <<"jovian", "building">>],
       [name |-> "Land Claim", type |-> {"event"},
        description |-> "Dust!", tags |-> <<"event">>],
       [name |-> "EcoLine", type |-> {"corporation"},
        description |-> "Gain 2 plants.", tags |-> <<"plant">>],
       [name |-> "Soil Factory", type |-> {"automated"},
        description |->
          "Gain 2 steel. Sprawling robotic assembly lines hum under red skies.",
        tags |-> <<"building">>],
       [name |-> "Industrial Center", type |-> {},
        description |-> "", tags |-> <<"building">>],
       [name |-> "Inventrix", type |-> {"corporation"},
        description |-> "", tags |-> <<"science">>] >>

\* The catalog's entries for the ids of cs.
SampleData(cs) == [c \in Range(cs) |-> SampleEntries[c]]

\* The entries of the prompt runs: every combination of these fields.
Names == {"Land Claim", "EcoLine"}
Types == Opt({"corporation", "event", "token"})
TagLists == {<<>>, <<"plant">>, <<"building", "token", "space">>}
CardFields ==
    [name : Names, type : Types, description : Descriptions, tags : TagLists]

\* The ids of the prompt runs: one that is not in _NAME_OVERRIDES and two
\* that are.
PromptIds == {c \in DOMAIN CardIds : IdText(c) \in {"001", "066", "B02"}}

\* --seed: absent, or one of these (0 and 7).
SeedArgs == Opt({SeedOf(0, 0), SeedOf(0, 7)})

\* What random.randint(0, 2**32 - 1) may return: the two ends of its range.
RandomSeeds == {SeedOf(0, 0), SeedOf(SeedHalf - 1, SeedHalf - 1)}

\* Command lines naming the ids in `ids` (those of the catalog and one that
\* is not in it).  With --card the other selectors are read from a short
\* list, since the code does not look at them; likewise --start and --end
\* with --missing.
ArgSets(ids) ==
    LET short == {{}} \cup {{x} : x \in {y \in ids : \A z \in ids : y <= z}}
        modes ==
            {[card |-> {c}, missing |-> m, start |-> s, end |-> {}] :
                c \in ids, m \in BOOLEAN, s \in short}
            \cup {[card |-> {}, missing |-> TRUE, start |-> s, end |-> {}] :
                s \in short}
            \cup {[card |-> {}, missing |-> FALSE, start |-> s, end |-> e] :
                s \in Opt(ids), e \in Opt(ids)}
    IN  {[card |-> m.card, missing |-> m.missing, start |-> m.start,
          end |-> m.end, dry_run |-> d, seed |-> sd] :
            m \in modes, d \in BOOLEAN, sd \in SeedArgs}

\* The locals of one entry's pipeline, before generate_card is entered.
NoEntry ==
    /\ seed = {}
    /\ attempt = 0
    /\ last_error = {}
    /\ prompt_id = NoJob
    /\ poll_interval = 0
    /\ timeout = 0
    /\ elapsed = 0
    /\ history = {}
    /\ result = {}
    /\ image_data = {}
    /\ exc = {}
    /\ calls = 0
    /\ failures = 0
    /\ reported = 0
    /\ delays = <<>>
    /\ submits = 0
    /\ fetches = 0
    /\ last_req = NoReq

\* No batch has run.
NoBatch ==
    /\ targets = <<>>
    /\ i = 0
    /\ results = <<>>
    /\ started = <<>>
    /\ saved = <<>>
    /\ failed = <<>>
    /\ inflight = {}
    /\ pauses = 0
    /\ shown = <<>>
    /\ summary = {}
    /\ written = {}
    /\ gen_failed = <<>>

\* asyncio.run(_run(args)) after CardImageGenerator() loaded the catalog.
Init ==
    /\ cards \in Catalogs
    /\ card_data = SampleData(cards)
    /\ files \in SUBSET {OutputPath(c) : c \in Range(cards)}
    /\ args \in ArgSets(Range(cards) \cup {Len(cards) + 1})
    /\ max_retries = MAX_RETRIES
    /\ pc = "select"
    /\ status = "running"
    /\ NoBatch
    /\ NoEntry

\* The same, over the wider catalogs: the runs of SpecSelect end where
\* generate_batch is entered.
InitSelect ==
    /\ cards \in AllCatalogs
    /\ card_data = SampleData(cards)
    /\ files \in SUBSET {OutputPath(c) : c \in Range(cards)}
    /\ args \in ArgSets(Range(cards) \cup {MaxCatalog + 1})
    /\ max_retries = MAX_RETRIES
    /\ pc = "select"
    /\ status = "running"
    /\ NoBatch
    /\ NoEntry

\* generate_batch entered for a catalog of two cards, both selected by
\* --start/--end, none with a file, with config.MAX_RETRIES set to a budget
\* between 1 and MaxBudget.
InitRetry ==
    /\ cards = <<1, 2>>
    /\ card_data = SampleData(cards)
    /\ files = {}
    /\ args = [card |-> {}, missing |-> FALSE, start |-> {1}, end |-> {2},
               dry_run |-> FALSE, seed |-> {}]
    /\ max_retries \in 1..MaxBudget
    /\ pc = "loop"
    /\ status = "running"
    /\ targets = <<1, 2>>
    /\ i = 1
    /\ results = <<>>
    /\ started = <<>>
    /\ saved = <<>>
    /\ failed = <<>>
    /\ inflight = {}
    /\ pauses = 0
    /\ shown = <<>>
    /\ summary = {}
    /\ written = {}
    /\ gen_failed = <<>>
    /\ NoEntry

\* The arguments wait_for_completion is called with in SpecWait, in ticks:
\* the defaults among them.
PollIntervals == {0, DEFAULT_POLL_INTERVAL, 2 * DEFAULT_POLL_INTERVAL}
Timeouts == {0, DEFAULT_POLL_INTERVAL, 3 * DEFAULT_POLL_INTERVAL, DEFAULT_TIMEOUT}

\* wait_for_completion(prompt_id, poll_interval, timeout) called on its own,
\* for the job of a first attempt: elapsed = 0.0, nothing queried yet.
InitWait ==
    /\ cards = <<1>>
    /\ card_data = SampleData(cards)
    /\ files = {}
    /\ args = [card |-> {1}, missing |-> FALSE, start |-> {}, end |-> {},
               dry_run |-> FALSE, seed |-> {SeedOf(0, 7)}]
    /\ max_retries = MAX_RETRIES
    /\ pc = "wait"
    /\ status = "running"
    /\ targets = <<1>>
    /\ i = 1
    /\ results = <<>>
    /\ started = <<1>>
    /\ saved = <<>>
    /\ failed = <<>>
    /\ inflight = {1}
    /\ pauses = 0
    /\ shown = <<>>
    /\ summary = {}
    /\ written = {}
    /\ gen_failed = <<>>
    /\ seed = {SeedOf(0, 7)}
    /\ attempt = 0
    /\ last_error = {}
    /\ prompt_id = JobFor(1, 0)
    /\ poll_interval \in PollIntervals
    /\ timeout \in Timeouts
    /\ elapsed = 0
    /\ history = {}
    /\ result = {}
    /\ image_data = {}
    /\ exc = {}
    /\ calls = 1
    /\ failures = 0
    /\ reported = 0
    /\ delays = <<>>
    /\ submits = 1
    /\ fetches = 0
    /\ last_req = SubmitReq(build_prompt(1), SeedOf(0, 7))

\* A run on a catalog of one entry, selected by --card, with or without
\* --dry-run and --seed: the entry's fields are drawn from CardFields.
InitPrompt ==
    /\ \E c \in PromptIds :
        /\ cards = <<c>>
        /\ card_data \in [{c} -> CardFields]
        /\ args \in {[card |-> {c}, missing |-> FALSE, start |-> {},
                      end |-> {}, dry_run |-> d, seed |-> sd] :
                        d \in BOOLEAN, sd \in SeedArgs}
    /\ files = {}
    /\ max_retries = MAX_RETRIES
    /\ pc = "select"
    /\ status = "running"
    /\ NoBatch
    /\ NoEntry

---------------------------------------------------------------------------
(* generate_cards._run *)

Selection == get_target_cards(args, cards, files)

\* The run leaves the task: nothing is left of its frames.
Exit(st) ==
    /\ pc' = "exited"
    /\ status' = st

entryVars == <<seed, attempt, last_error, prompt_id, poll_interval, timeout,
               elapsed, history, result, image_data, exc, calls, failures,
               reported, delays, submits, fetches, last_req>>
batchVars == <<targets, i, results, started, saved, failed, inflight, pauses,
               shown, summary>>
inputVars == <<cards, card_data, args, max_retries>>
traceVars == <<written, gen_failed>>

\* find_card or all_ids.index raised ValueError: it leaves _run and
\* asyncio.run uncaught, the process ends with a traceback.
RunNotFound ==
    /\ pc = "select"
    /\ Selection.kind = "ValueError"
    /\ Exit("error")
    /\ UNCHANGED <<inputVars, traceVars, files, batchVars, entryVars>>

\* No selector given: the usage line and sys.exit(1).
RunUsage ==
    /\ pc = "select"
    /\ Selection.kind = "exit1"
    /\ Exit("exit1")
    /\ UNCHANGED <<inputVars, traceVars, files, batchVars, entryVars>>

\* Variant: the empty missing set ends the run like the usage error,
\* 'sys.exit(1)'.
RunNothingMissingError ==
    /\ pc = "select"
    /\ Selection.kind = "exit0"
    /\ Exit("exit1")
    /\ UNCHANGED <<inputVars, traceVars, files, batchVars, entryVars>>

\* --missing with nothing missing: sys.exit(0).
RunNothingMissing ==
    /\ pc = "select"
    /\ Selection.kind = "exit0"
    /\ Exit("exit0")
    /\ UNCHANGED <<inputVars, traceVars, files, batchVars, entryVars>>

\* Variant: the dry run lacks its 'return' and goes on to generate_batch.
RunDryFallsThrough ==
    /\ pc = "select"
    /\ Selection.kind = "list"
    /\ args.dry_run
    /\ targets' = Selection.cards
    /\ shown' = [k \in 1..Len(Selection.cards) |->
                    build_prompt(Selection.cards[k])]
    /\ i' = 1
    /\ results' = <<>>
    /\ pc' = "loop"
    /\ UNCHANGED <<inputVars, traceVars, files, status, started, saved,
                   failed, inflight, pauses, summary, entryVars>>

\* --dry-run: one prompt printed per selected card, then return.
RunDry ==
    /\ pc = "select"
    /\ Selection.kind = "list"
    /\ args.dry_run
    /\ targets' = Selection.cards
    /\ shown' = [k \in 1..Len(Selection.cards) |->
                    build_prompt(Selection.cards[k])]
    /\ Exit("ok")
    /\ UNCHANGED <<inputVars, traceVars, files, i, results, started, saved, failed,
                   inflight, pauses, summary, entryVars>>

\* generate_batch(cards, seed=args.seed) is entered: results = [], the loop
\* is at its first entry.
RunBatch ==
    /\ pc = "select"
    /\ Selection.kind = "list"
    /\ ~args.dry_run
    /\ targets' = Selection.cards
    /\ i' = 1
    /\ results' = <<>>
    /\ pc' = "loop"
    /\ UNCHANGED <<inputVars, traceVars, files, status, started, saved, failed, inflight,
                   pauses, shown, summary, entryVars>>

---------------------------------------------------------------------------
(* generate_batch, generate_card *)

\* Variant: the test on the seed's truth value, 'if not seed', which takes
\* the seed 0 for no seed.
assign_seed_falsy(sd, r) ==
    IF sd = {} \/ sd = {SeedOf(0, 0)} THEN r ELSE TheOne(sd)

\* generate_card: 'if seed is None: seed = random.randint(0, 2**32 - 1)',
\* r being the draw.
assign_seed(sd, r) == IF sd = {} THEN r ELSE TheOne(sd)

\* client.generate(prompt, seed) is entered: its locals are fresh.
GenerateEntered ==
    /\ prompt_id' = NoJob
    /\ poll_interval' = 0
    /\ timeout' = 0
    /\ elapsed' = 0
    /\ history' = {}
    /\ result' = {}
    /\ image_data' = {}
    /\ exc' = {}
    /\ submits' = 0
    /\ fetches' = 0
    /\ last_req' = NoReq

\* generate_card returned or raised: its frame and those below it are gone.
EntryLeft ==
    /\ seed' = {}
    /\ attempt' = 0
    /\ last_error' = {}
    /\ calls' = 0
    /\ failures' = 0
    /\ reported' = 0
    /\ delays' = <<>>
    /\ GenerateEntered

\* Variant: the sleep after every entry, the last included ('if i <= total').
ShouldPauseAlways(n, total) == n <= total

\* generate_batch: 'if i < total: await asyncio.sleep(config.BATCH_DELAY)'
ShouldPause(n, total) == n < total

\* The end of one iteration of generate_batch's loop.
NextEntry ==
    /\ pauses' = IF ShouldPause(i, Len(targets)) THEN pauses + 1 ELSE pauses
    /\ inflight' = inflight \ {i}
    /\ i' = i + 1
    /\ pc' = "loop"

\* Variant: generate_card is started as a task of its own and not awaited
\* ('asyncio.create_task(self.generate_card(...))'): the loop takes the next
\* entry while the pipeline of the previous one is suspended.
CardStartNotAwaited ==
    /\ \/ pc = "loop" /\ i <= Len(targets) /\ i' = i
       \/ pc = "wait" /\ i < Len(targets) /\ i' = i + 1
    /\ \E r \in RandomSeeds : seed' = {assign_seed(args.seed, r)}
    /\ started' = Append(started, targets[i'])
    /\ inflight' = inflight \cup {i'}
    /\ attempt' = 0
    /\ last_error' = {}
    /\ calls' = 1
    /\ failures' = 0
    /\ reported' = 0
    /\ delays' = <<>>
    /\ GenerateEntered
    /\ pc' = "submit"
    /\ UNCHANGED <<inputVars, traceVars, files, status, targets, results, saved,
                   failed, pauses, shown, summary>>

\* Variant: generate_card creates its output file before it generates
\* ('output_path.touch()' first).
CardStartReserves ==
    /\ pc = "loop"
    /\ i <= Len(targets)
    /\ \E r \in RandomSeeds : seed' = {assign_seed(args.seed, r)}
    /\ files' = files \cup {OutputPath(targets[i])}
    /\ written' = written \cup {OutputPath(targets[i])}
    /\ started' = Append(started, targets[i])
    /\ inflight' = inflight \cup {i}
    /\ attempt' = 0
    /\ last_error' = {}
    /\ calls' = 1
    /\ failures' = 0
    /\ reported' = 0
    /\ delays' = <<>>
    /\ GenerateEntered
    /\ pc' = "submit"
    /\ UNCHANGED <<inputVars, gen_failed, status, targets, i, results, saved,
                   failed, pauses, shown, summary>>

\* generate_batch takes entry i and generate_card runs up to the first
\* request of its first client.generate call.
CardStart ==
    /\ pc = "loop"
    /\ i <= Len(targets)
    /\ \E r \in RandomSeeds : seed' = {assign_seed(args.seed, r)}
    /\ started' = Append(started, targets[i])
    /\ inflight' = inflight \cup {i}
    /\ attempt' = 0
    /\ last_error' = {}
    /\ calls' = 1
    /\ failures' = 0
    /\ reported' = 0
    /\ delays' = <<>>
    /\ GenerateEntered
    /\ pc' = "submit"
    /\ UNCHANGED <<inputVars, traceVars, files, status, targets, i, results, saved,
                   failed, pauses, shown, summary>>

\* The loop of generate_batch is over: the summary line, return results.
BatchDone ==
    /\ pc = "loop"
    /\ i > Len(targets)
    /\ summary' = {[count |-> Len(results), total |-> Len(targets)]}
    /\ Exit("ok")
    /\ UNCHANGED <<inputVars, traceVars, files, targets, i, results, started, saved,
                   failed, inflight, pauses, shown, entryVars>>

\* process_and_save wrote the file; generate_card returns the path and
\* generate_batch appends it.
SaveOk ==
    /\ pc = "gen_returned"
    /\ files' = files \cup {OutputPath(targets[i])}
    /\ written' = written \cup {OutputPath(targets[i])}
    /\ saved' = Append(saved, targets[i])
    /\ results' = Append(results, OutputPath(targets[i]))
    /\ NextEntry
    /\ EntryLeft
    /\ UNCHANGED <<inputVars, gen_failed, status, targets, started, failed,
                   shown, summary>>

\* Variant: process_and_save is called inside the try of the retry loop, its
\* failure counts as a failed attempt.
SaveFailRetried ==
    /\ pc = "gen_returned"
    /\ \E kind \in {"DecodeError", "WriteError"} :
        /\ exc' = {Err(kind, calls)}
        /\ \/ files' = files /\ written' = written
           \/ /\ kind = "WriteError"
              /\ files' = files \cup {OutputPath(targets[i])}
              /\ written' = written \cup {OutputPath(targets[i])}
    /\ failures' = failures + 1
    /\ pc' = "gen_raised"
    /\ UNCHANGED <<inputVars, gen_failed, status, batchVars, seed, attempt,
                   last_error, prompt_id, poll_interval, timeout, elapsed,
                   history, result, image_data, calls, reported, delays,
                   submits, fetches, last_req>>

\* process_and_save raised: Image.open could not decode the bytes (nothing
\* is written), or img.save failed, before it opened the file or after (the
\* file is then created, or overwritten in part).
SaveFail ==
    /\ pc = "gen_returned"
    /\ \E kind \in {"DecodeError", "WriteError"} :
        /\ exc' = {Err(kind, 0)}
        /\ \/ files' = files /\ written' = written
           \/ /\ kind = "WriteError"
              /\ files' = files \cup {OutputPath(targets[i])}
              /\ written' = written \cup {OutputPath(targets[i])}
    /\ pc' = "card_raised"
    /\ UNCHANGED <<inputVars, gen_failed, status, batchVars, seed, attempt,
                   last_error,
                   prompt_id, poll_interval, timeout, elapsed, history, result,
                   image_data, calls, failures, reported, delays, submits,
                   fetches, last_req>>

\* Variant: no try/except around generate_card, the exception leaves
\* generate_batch and the run.
BatchCatchMissing ==
    /\ pc = "card_raised"
    /\ Exit("error")
    /\ UNCHANGED <<inputVars, traceVars, files, batchVars, entryVars>>

\* Variant: the path is appended whether generate_card returned or raised
\* ('results.append' moved out of the try).
BatchCatchAppends ==
    /\ pc = "card_raised"
    /\ failed' = Append(failed, targets[i])
    /\ results' = Append(results, OutputPath(targets[i]))
    /\ NextEntry
    /\ EntryLeft
    /\ UNCHANGED <<inputVars, traceVars, files, status, targets, started, saved,
                   shown, summary>>

\* generate_batch: 'except Exception as exc: print(f"  FAILED: {exc}")'
BatchCatch ==
    /\ pc = "card_raised"
    /\ failed' = Append(failed, targets[i])
    /\ NextEntry
    /\ EntryLeft
    /\ UNCHANGED <<inputVars, traceVars, files, status, targets, results, started, saved,
                   shown, summary>>

---------------------------------------------------------------------------
(* ComfyUIClient.generate: queue_prompt, wait_for_completion, get_image *)

\* client.generate raised: the exception reaches _generate_with_retry.
GenerateRaised(kind) ==
    /\ exc' = {Err(kind, calls)}
    /\ failures' = failures + 1
    /\ pc' = "gen_raised"

\* queue_prompt: the POST is answered with a prompt_id; generate goes on to
\* wait_for_completion(prompt_id), with the default interval and timeout.
SubmitOk ==
    /\ pc = "submit"
    /\ last_req' = SubmitReq(build_prompt(targets[i]), TheOne(seed))
    /\ submits' = submits + 1
    /\ prompt_id' = JobFor(i, attempt)
    /\ poll_interval' = DEFAULT_POLL_INTERVAL
    /\ timeout' = PipelineTimeout
    /\ elapsed' = 0
    /\ pc' = "wait"
    /\ UNCHANGED <<inputVars, traceVars, files, status, batchVars, seed, attempt,
                   last_error, history, result, image_data, exc, calls,
                   failures, reported, delays, fetches>>

\* Variant: queue_prompt swallows the failure and returns no id
\* ('data.get("prompt_id")' without raise_for_status); generate polls on.
SubmitFailSwallowed ==
    /\ pc = "submit"
    /\ last_req' = SubmitReq(build_prompt(targets[i]), TheOne(seed))
    /\ submits' = submits + 1
    /\ prompt_id' = NoJob
    /\ poll_interval' = DEFAULT_POLL_INTERVAL
    /\ timeout' = PipelineTimeout
    /\ elapsed' = 0
    /\ pc' = "wait"
    /\ UNCHANGED <<inputVars, traceVars, files, status, batchVars, seed, attempt,
                   last_error, history, result, image_data, exc, calls,
                   failures, reported, delays, fetches>>

\* queue_prompt: the POST fails, is refused, or is answered without a
\* prompt_id.
SubmitFail ==
    /\ pc = "submit"
    /\ last_req' = SubmitReq(build_prompt(targets[i]), TheOne(seed))
    /\ submits' = submits + 1
    /\ GenerateRaised("SubmissionError")
    /\ UNCHANGED <<inputVars, traceVars, files, status, batchVars, seed, attempt,
                   last_error, prompt_id, poll_interval, timeout, elapsed,
                   history, result, image_data, calls, reported, delays,
                   fetches>>

\* Variant: the loop condition inclusive, 'while elapsed <= timeout'.
LoopContinuesInclusive(e, t) == e <= t

\* wait_for_completion: 'while elapsed < timeout'
LoopContinues(e, t) == e < t

\* wait_for_completion: 'if prompt_id in history'
InHistory(job, h) == job \in DOMAIN h

\* What GET /history/{prompt_id} may answer: nothing yet, the job with its
\* descriptor, or a mapping that holds another job only.
Responses(job) ==
    {[j \in {} |-> <<>>], [j \in {OtherJob} |-> <<>>]}
    \cup {[j \in {job} |-> d] : d \in Descriptors}

\* One iteration of wait_for_completion's loop: the query, then either the
\* return of history[prompt_id] or the sleep and 'elapsed += poll_interval'.
WaitPoll ==
    /\ pc = "wait"
    /\ LoopContinues(elapsed, timeout)
    /\ last_req' = PollReq(prompt_id, elapsed)
    /\ \E h \in Responses(prompt_id) :
        /\ history' = {h}
        /\ IF InHistory(prompt_id, h)
           THEN /\ result' = {h[prompt_id]}
                /\ pc' = "completed"
                /\ elapsed' = elapsed
           ELSE /\ result' = result
                /\ pc' = pc
                /\ elapsed' = elapsed + poll_interval
    /\ UNCHANGED <<inputVars, traceVars, files, status, batchVars, seed, attempt,
                   last_error, prompt_id, poll_interval, timeout, image_data,
                   exc, calls, failures, reported, delays, submits, fetches>>

\* One iteration of the loop whose query fails (the GET, or resp.json()).
WaitPollError ==
    /\ pc = "wait"
    /\ LoopContinues(elapsed, timeout)
    /\ last_req' = PollReq(prompt_id, elapsed)
    /\ GenerateRaised("ClientError")
    /\ UNCHANGED <<inputVars, traceVars, files, status, batchVars, seed, attempt,
                   last_error, prompt_id, poll_interval, timeout, elapsed,
                   history, result, image_data, calls, reported, delays,
                   submits, fetches>>

\* The loop condition fails: raise TimeoutError.
WaitTimeout ==
    /\ pc = "wait"
    /\ ~LoopContinues(elapsed, timeout)
    /\ GenerateRaised("TimeoutError")
    /\ UNCHANGED <<inputVars, traceVars, files, status, batchVars, seed, attempt,
                   last_error, prompt_id, poll_interval, timeout, elapsed,
                   history, result, image_data, calls, reported, delays,
                   submits, fetches, last_req>>

\* generate's walk of the outputs:
\*   for output in outputs.values():
\*       if "images" in output:
\*           img_info = output["images"][0]
\*           return await self.get_image(img_info["filename"], ...)
\*   raise RuntimeError("No image found in generation output")
RECURSIVE locate_image(_)
locate_image(outputs) ==
    IF outputs = <<>> THEN [kind |-> "RuntimeError", file |-> ""]
    ELSE IF Head(outputs).has_images
         THEN (IF Head(outputs).images = <<>>
               THEN [kind |-> "IndexError", file |-> ""]
               ELSE [kind |-> "fetch", file |-> Head(outputs).images[1]])
         ELSE locate_image(Tail(outputs))

\* The walk finds an image reference and get_image returns its bytes.
FetchOk ==
    /\ pc = "completed"
    /\ locate_image(TheOne(result)).kind = "fetch"
    /\ last_req' = FetchReq(locate_image(TheOne(result)).file)
    /\ fetches' = fetches + 1
    /\ image_data' = {[job |-> prompt_id,
                       file |-> locate_image(TheOne(result)).file]}
    /\ pc' = "gen_returned"
    /\ UNCHANGED <<inputVars, traceVars, files, status, batchVars, seed, attempt,
                   last_error, prompt_id, poll_interval, timeout, elapsed,
                   history, result, exc, calls, failures, reported, delays,
                   submits>>

\* The walk finds an image reference and get_image fails.
FetchFail ==
    /\ pc = "completed"
    /\ locate_image(TheOne(result)).kind = "fetch"
    /\ last_req' = FetchReq(locate_image(TheOne(result)).file)
    /\ fetches' = fetches + 1
    /\ GenerateRaised("FetchError")
    /\ UNCHANGED <<inputVars, traceVars, files, status, batchVars, seed, attempt,
                   last_error, prompt_id, poll_interval, timeout, elapsed,
                   history, result, image_data, calls, reported, delays,
                   submits>>

\* The walk ends without a fetch: it raises.
NoImageFound ==
    /\ pc = "completed"
    /\ locate_image(TheOne(result)).kind # "fetch"
    /\ GenerateRaised(locate_image(TheOne(result)).kind)
    /\ UNCHANGED <<inputVars, traceVars, files, status, batchVars, seed, attempt,
                   last_error, prompt_id, poll_interval, timeout, elapsed,
                   history, result, image_data, calls, reported, delays,
                   submits, fetches, last_req>>

---------------------------------------------------------------------------
(* _generate_with_retry *)

\* 'for attempt in range(config.MAX_RETRIES)': attempt a is in the range.
InRange(a) == a < max_retries

\* Variant: the backoff test off by one, 'attempt < MAX_RETRIES - 2'.
ShouldBackoffOffByOne(a) == a < max_retries - 2

\* 'if attempt < config.MAX_RETRIES - 1'
ShouldBackoff(a) == a < max_retries - 1

\* Variant: the same delay before every retry, 'delay = config.RETRY_DELAY'.
backoff_delay_constant(a) == RETRY_DELAY

\* 'delay = config.RETRY_DELAY * (attempt + 1)'
backoff_delay(a) == RETRY_DELAY * (a + 1)

\* Variant: the except block keeps the first error,
\* 'last_error = last_error or exc'.
ExceptBlockKeepsFirst ==
    /\ last_error' = IF last_error = {} THEN exc ELSE last_error
    /\ reported' = IF ShouldBackoff(attempt) THEN reported + 1 ELSE reported
    /\ delays' = IF ShouldBackoff(attempt)
                 THEN Append(delays, backoff_delay(attempt))
                 ELSE delays

\* The except block: last_error = exc and, before the last attempt, the
\* "Retry" line and the sleep.
ExceptBlock ==
    /\ last_error' = exc
    /\ reported' = IF ShouldBackoff(attempt) THEN reported + 1 ELSE reported
    /\ delays' = IF ShouldBackoff(attempt)
                 THEN Append(delays, backoff_delay(attempt))
                 ELSE delays

\* A failed attempt that is not the last of the range: the except block,
\* then the next client.generate call.
RetryNext ==
    /\ pc = "gen_raised"
    /\ InRange(attempt + 1)
    /\ ExceptBlock
    /\ attempt' = attempt + 1
    /\ calls' = calls + 1
    /\ GenerateEntered
    /\ pc' = "submit"
    /\ UNCHANGED <<inputVars, traceVars, files, status, batchVars, seed, failures>>

\* A failed attempt that is the last of the range: the except block, then
\* 'raise last_error', which leaves generate_card too.
RetryExhausted ==
    /\ pc = "gen_raised"
    /\ ~InRange(attempt + 1)
    /\ ExceptBlock
    /\ exc' = last_error'
    /\ gen_failed' = Append(gen_failed, targets[i])
    /\ pc' = "card_raised"
    /\ UNCHANGED <<inputVars, written, files, status, batchVars, seed, attempt,
                   prompt_id, poll_interval, timeout, elapsed, history, result,
                   image_data, calls, failures, submits, fetches, last_req>>

---------------------------------------------------------------------------
(* The run *)

\* The steps of generate_batch.
NextBatch ==
    \/ CardStart
    \/ BatchDone
    \/ SubmitOk
    \/ SubmitFail
    \/ WaitPoll
    \/ WaitPollError
    \/ WaitTimeout
    \/ FetchOk
    \/ FetchFail
    \/ NoImageFound
    \/ RetryNext
    \/ RetryExhausted
    \/ SaveOk
    \/ SaveFail
    \/ BatchCatch

Next ==
    \/ RunNotFound
    \/ RunUsage
    \/ RunNothingMissing
    \/ RunDry
    \/ RunBatch
    \/ NextBatch

Spec == Init /\ [][Next]_vars

\* generate_batch alone, over the attempt budgets.
SpecRetry == InitRetry /\ [][NextBatch]_vars

\* Selection alone, over the wider catalogs.
NextSelect ==
    \/ RunNotFound
    \/ RunUsage
    \/ RunNothingMissing
    \/ RunDry
    \/ RunBatch

SpecSelect == InitSelect /\ [][NextSelect]_vars

\* wait_for_completion alone, over its arguments.
NextWait ==
    \/ WaitPoll
    \/ WaitPollError
    \/ WaitTimeout

SpecWait == InitWait /\ [][NextWait]_vars

\* wait_for_completion alone, the event loop resuming the task whenever it
\* can run and the backend answering every query.
SpecWaitLive == SpecWait /\ WF_vars(NextWait)

\* One entry from the selection to its first submit, over the entry's fields.
NextPrompt ==
    \/ RunDry
    \/ RunBatch
    \/ CardStart
    \/ SubmitOk
    \/ SubmitFail

SpecPrompt == InitPrompt /\ [][NextPrompt]_vars

---------------------------------------------------------------------------
(* Properties of _generate_with_retry *)

\* The points of the task inside client.generate.
GeneratePoints == {"submit", "wait", "completed"}

\* C1 (retry accounting on success).  When _generate_with_retry returns after
\* k failed calls (k < max_retries, whatever the budget), it returns the
\* bytes of call k + 1, it has called client.generate exactly k + 1 times and
\* printed exactly k "Retry" lines; after the return no further
\* client.generate call is made for the entry.
C1_RetrySuccess ==
    /\ [](pc = "gen_returned" =>
            /\ failures < max_retries
            /\ calls = failures + 1
            /\ attempt = failures
            /\ reported = failures
            /\ Len(delays) = failures
            /\ image_data # {}
            /\ TheOne(image_data).job = JobFor(i, failures))
    /\ [][pc = "gen_returned" =>
            /\ pc' \notin GeneratePoints
            /\ calls' <= calls
            /\ submits' <= submits]_vars

\* With the configured budget, a success on the last attempt, after two
\* failures, for the second entry of the batch.
C1_Witness ==
    /\ pc = "gen_returned"
    /\ i = 2
    /\ max_retries = MAX_RETRIES
    /\ failures = MAX_RETRIES - 1
    /\ reported = MAX_RETRIES - 1

\* C2 (last error wins).  When every attempt of the budget has failed,
\* client.generate has been called exactly max_retries times, no further call
\* is made, and the exception that leaves _generate_with_retry is the very one
\* the last call raised: same kind, raised by call max_retries.
C2_LastErrorWins ==
    /\ [][(pc = "gen_raised" /\ failures = max_retries) =>
            /\ pc' = "card_raised"
            /\ calls = max_retries
            /\ TheOne(exc).at = max_retries
            /\ exc' = exc
            /\ calls' = calls]_vars
    /\ [][(pc = "gen_raised" /\ pc' = "card_raised") =>
            /\ failures = max_retries
            /\ exc' = exc]_vars
    /\ []((pc = "card_raised" /\ failures = max_retries) =>
            /\ calls = max_retries
            /\ exc = last_error
            /\ TheOne(exc).at = max_retries
            /\ TheOne(exc).kind \in {"SubmissionError", "ClientError",
                   "TimeoutError", "FetchError", "RuntimeError", "IndexError"})

\* With the configured budget, exhaustion on a timeout of the third call
\* after two failed submits.
C2_Witness ==
    /\ pc = "card_raised"
    /\ max_retries = MAX_RETRIES
    /\ failures = MAX_RETRIES
    /\ calls = MAX_RETRIES
    /\ last_error = {Err("TimeoutError", MAX_RETRIES)}
    /\ exc = {Err("TimeoutError", MAX_RETRIES)}
    /\ last_req.op = "poll"

---------------------------------------------------------------------------
(* Properties of ComfyUIClient *)

\* C3 (completion polling).  wait_for_completion returns history[prompt_id]
\* of the first response that holds prompt_id, and of no other response; each
\* unanswered query adds poll_interval to elapsed; no query is sent once
\* elapsed >= timeout; at elapsed >= timeout the only step is TimeoutError,
\* which is raised only then and only when no response held the job.
C3_PollingTimeout ==
    /\ [](pc = "completed" =>
            /\ history # {}
            /\ prompt_id \in DOMAIN TheOne(history)
            /\ result = {TheOne(history)[prompt_id]})
    /\ []((pc = "wait" /\ history # {}) =>
            prompt_id \notin DOMAIN TheOne(history))
    /\ [](last_req.op = "poll" =>
            /\ last_req.job = prompt_id
            /\ last_req.at < timeout)
    /\ []((pc = "wait" /\ last_req.op = "poll") =>
            elapsed = last_req.at + poll_interval)
    /\ []((pc = "gen_raised" /\ TheOne(exc).kind = "TimeoutError") =>
            /\ elapsed >= timeout
            /\ result = {}
            /\ (history = {} \/ prompt_id \notin DOMAIN TheOne(history)))
    /\ [][(pc = "wait" /\ elapsed >= timeout) =>
            /\ pc' = "gen_raised"
            /\ exc' = {Err("TimeoutError", calls)}
            /\ last_req' = last_req]_vars

\* The default call timing out: 300 s of queries every 0.5 s, the last one
\* sent at 299.5 s.
C3_Witness ==
    /\ pc = "gen_raised"
    /\ exc = {Err("TimeoutError", 1)}
    /\ poll_interval = DEFAULT_POLL_INTERVAL
    /\ timeout = DEFAULT_TIMEOUT
    /\ last_req = PollReq(prompt_id, DEFAULT_TIMEOUT - DEFAULT_POLL_INTERVAL)

\* C4 (protocol order inside one client.generate call).  The first request is
\* the submit and there is exactly one; queries are sent only once the submit
\* returned a job id and only for that id; the fetch is sent only after a
\* response held the job, at most once, as the last request of the call, and
\* never in a call that failed in the submit or timed out; a call that raised
\* sends nothing more.
C4_ProtocolOrder ==
    /\ [](submits <= 1 /\ fetches <= 1)
    /\ [](pc = "submit" => (submits = 0 /\ fetches = 0 /\ last_req = NoReq))
    /\ [](pc \in {"wait", "completed", "gen_raised", "gen_returned"} =>
            submits = 1)
    /\ [](last_req.op = "poll" =>
            /\ submits = 1
            /\ prompt_id = JobFor(i, attempt)
            /\ last_req.job = JobFor(i, attempt))
    /\ [](fetches = 1 <=> last_req.op = "fetch")
    /\ [](last_req.op = "fetch" =>
            /\ result # {}
            /\ history # {}
            /\ prompt_id \in DOMAIN TheOne(history))
    /\ []((pc = "gen_raised"
           /\ TheOne(exc).kind \in {"SubmissionError", "TimeoutError"}) =>
            fetches = 0)
    /\ [][pc = "gen_raised" => (last_req' = last_req \/ calls' # calls)]_vars
    /\ [][fetches' > fetches => (pc = "completed" /\ last_req.op = "poll")]_vars

\* A call that went through the three phases, with an unanswered query first.
C4_Witness ==
    /\ pc = "gen_returned"
    /\ submits = 1
    /\ fetches = 1
    /\ elapsed > 0
    /\ last_req.op = "fetch"

\* Some output entry carries an image reference.
HasImageRef(d) ==
    \E k \in 1..Len(d) : d[k].has_images /\ d[k].images # <<>>

\* The first image reference of the first output entry that carries one.
FirstImageRef(d) ==
    LET k == CHOOSE n \in 1..Len(d) :
                /\ d[n].has_images /\ d[n].images # <<>>
                /\ \A m \in 1..(n - 1) : ~(d[m].has_images /\ d[m].images # <<>>)
    IN  d[k].images[1]

\* C5 (no-image outcome), as claimed.  A completed job whose outputs hold no
\* image reference makes client.generate fail with the no-image error
\* (RuntimeError "No image found in generation output") without a fetch; one
\* whose outputs hold a reference makes it fetch the first such reference.
C5_NoImageOutcome ==
    /\ (pc = "gen_raised" /\ result # {} /\ ~HasImageRef(TheOne(result))) =>
            (TheOne(exc).kind = "RuntimeError" /\ fetches = 0)
    /\ (pc \in {"gen_raised", "gen_returned"} /\ result # {}
        /\ HasImageRef(TheOne(result))) =>
            (fetches = 1 /\ last_req = FetchReq(FirstImageRef(TheOne(result))))

---------------------------------------------------------------------------
(* Properties of generate_batch *)

\* generate_batch has been entered.
InBatch == pc \notin {"select"} /\ i >= 1

\* Entry k of the selection is done with: persisted, or failed for good.
Concluded(k) ==
    \/ targets[k] \in Range(saved) /\ OutputPath(targets[k]) \in files
    \/ targets[k] \in Range(failed)

\* C6 (batch failure isolation).  generate_card is entered for the selected
\* entries in list order, each once; an exception that leaves generate_card
\* (retry exhaustion, decode or write failure) is followed by the next
\* iteration of the loop and never by the end of the run; generate_batch ends
\* only by returning, with every selected entry processed.
C6_FailureIsolation ==
    /\ [](InBatch => started = SubSeq(targets, 1, Len(started)))
    /\ []((InBatch /\ pc = "loop") =>
            (Len(started) = i - 1 /\ Len(saved) + Len(failed) = i - 1))
    /\ [](InBatch => status \in {"running", "ok"})
    /\ []((InBatch /\ pc = "exited") =>
            /\ status = "ok"
            /\ summary # {}
            /\ started = targets
            /\ Len(saved) + Len(failed) = Len(targets))
    /\ [][pc = "card_raised" =>
            /\ pc' = "loop"
            /\ i' = i + 1
            /\ failed' = Append(failed, targets[i])
            /\ status' = "running"]_vars

\* A finished batch whose first entry failed for good and whose second entry
\* was persisted.
C6_Witness ==
    /\ pc = "exited"
    /\ summary # {}
    /\ Len(targets) = 2
    /\ failed = <<targets[1]>>
    /\ saved = <<targets[2]>>

\* C7 (no concurrent entries).  At most one entry's pipeline is entered and
\* not left, and it is entry i; the job awaited is the job of the current
\* attempt of that entry; whenever a request of entry i is on its way, every
\* earlier entry has been persisted or has failed for good.
C7_NoConcurrentEntries ==
    /\ Cardinality(inflight) <= 1
    /\ (pc \in {"submit", "wait", "completed", "gen_raised", "gen_returned",
                "card_raised"}) =>
            (inflight = {i} /\ \A k \in 1..(i - 1) : Concluded(k))
    /\ (pc \in {"loop", "exited", "select"}) => inflight = {}
    /\ (pc \in {"wait", "completed"}) => prompt_id = JobFor(i, attempt)
    /\ (InBatch /\ last_req.op = "submit") =>
            /\ last_req.prompt = build_prompt(targets[i])
            /\ \A k \in 1..(i - 1) : Concluded(k)

\* The second entry awaits its job after the first was persisted.
C7_Witness ==
    /\ pc = "wait"
    /\ i = 2
    /\ inflight = {2}
    /\ saved = <<targets[1]>>
    /\ last_req.op = "poll"

\* The sub-list of s of the elements in S, in the order of s.
RECURSIVE Restrict(_, _)
Restrict(s, S) ==
    IF s = <<>> THEN <<>>
    ELSE (IF Head(s) \in S THEN <<Head(s)>> ELSE <<>>) \o Restrict(Tail(s), S)

\* C8 (success tally).  The summary line reports as count the number of
\* entries process_and_save wrote in this run and as total the number of
\* selected entries; the returned list holds the output paths of exactly those
\* entries, in selection order; count <= total, with equality exactly when no
\* entry failed.
C8_SuccessTally ==
    summary # {} =>
        /\ TheOne(summary).count = Len(saved)
        /\ TheOne(summary).total = Len(targets)
        /\ Len(results) = Len(saved)
        /\ saved = Restrict(targets, Range(saved))
        /\ \A k \in 1..Len(results) : results[k] = OutputPath(saved[k])
        /\ \A k \in 1..Len(results) : results[k] \in files
        /\ Range(saved) \cap Range(failed) = {}
        /\ Range(saved) \cup Range(failed) = Range(targets)
        /\ TheOne(summary).count <= TheOne(summary).total
        /\ (TheOne(summary).count = TheOne(summary).total <=> failed = <<>>)

\* A summary of one success out of two.
C8_Witness ==
    /\ summary = {[count |-> 1, total |-> 2]}
    /\ failed = <<targets[1]>>
    /\ Len(results) = 1

---------------------------------------------------------------------------
(* Properties of the selection *)

\* t lists, in the order of cs and each once, exactly the entries of cs
\* whose output file is not in fs.
IsMissingSelection(t, cs, fs) ==
    /\ \A p \in 1..Len(t) : t[p] \in Range(cs) /\ OutputPath(t[p]) \notin fs
    /\ \A k \in 1..Len(cs) :
        OutputPath(cs[k]) \notin fs =>
            Cardinality({p \in 1..Len(t) : t[p] = cs[k]}) = 1
    /\ \A p, q \in 1..Len(t) :
        p < q => FirstIndex(cs, t[p]) < FirstIndex(cs, t[q])

\* C9 (missing selection).  For every catalog and every set of files,
\* get_missing_cards lists exactly the entries without an output file, each
\* once, in catalog order; the run in --missing mode selects that list and
\* the selection changes neither the catalog nor the output directory.
C9_MissingSelection ==
    /\ [](IsMissingSelection(get_missing_cards(cards, files), cards, files))
    /\ [][(pc = "select" /\ args.card = {} /\ args.missing) =>
            /\ IsMissingSelection(targets', cards, files)
            /\ cards' = cards
            /\ files' = files]_vars

\* Three entries, only the middle one has its file: the first and the last
\* are selected, in that order.
C9_Witness ==
    /\ pc # "select"
    /\ args.card = {}
    /\ args.missing
    /\ Len(cards) = 3
    /\ files = {OutputPath(cards[2])}
    /\ targets = <<cards[1], cards[3]>>

\* The command line selects nothing valid: --card names an id that is not in
\* the catalog, or no selector is given at all.
InvalidSelection ==
    \/ args.card # {} /\ TheOne(args.card) \notin Range(cards)
    \/ args.card = {} /\ ~args.missing /\ args.start = {} /\ args.end = {}

\* C10 (an invalid selection aborts before any work).  With --card naming an
\* unknown id the run ends on the uncaught ValueError, with no selector it
\* ends on sys.exit(1); in both cases that is the first and only step: no
\* entry is started, nothing is sent to the backend, no file is written.
C10_InvalidSelectionAborts ==
    /\ [][(pc = "select" /\ InvalidSelection) =>
            /\ pc' = "exited"
            /\ status' \in {"error", "exit1"}
            /\ status' = IF args.card # {} THEN "error" ELSE "exit1"
            /\ files' = files
            /\ last_req' = NoReq
            /\ started' = <<>>]_vars
    /\ [][pc # "exited"]_vars
    /\ [](InvalidSelection =>
            /\ pc \in {"select", "exited"}
            /\ submits = 0
            /\ fetches = 0
            /\ last_req = NoReq
            /\ started = <<>>
            /\ saved = <<>>
            /\ shown = <<>>)

\* --card with an unknown id, together with --missing and a missing file:
\* the run has ended in error.
C10_Witness ==
    /\ pc = "exited"
    /\ status = "error"
    /\ args.card # {}
    /\ args.missing
    /\ \E c \in Range(cards) : OutputPath(c) \notin files

---------------------------------------------------------------------------
(* Properties of the run modes *)

\* --missing is the selector in force and every catalog entry has its file.
NothingMissing ==
    /\ args.card = {}
    /\ args.missing
    /\ \A c \in Range(cards) : OutputPath(c) \in files

\* C11 (an empty missing set is a clean no-op).  In --missing mode with every
\* output file present at the start (present now, and none of them written by
\* this run), the first and only step of the run is sys.exit(0): no entry is
\* started, no prompt is shown, nothing is sent to the backend, no file is
\* created or written to.
C11_EmptyMissingNoOp ==
    /\ [][(pc = "select" /\ NothingMissing) =>
            /\ pc' = "exited"
            /\ status' = "exit0"
            /\ files' = files
            /\ written' = {}
            /\ last_req' = NoReq]_vars
    /\ [][(pc = "exited" /\ NothingMissing) => FALSE]_vars
    /\ []((NothingMissing /\ written = {}) =>
            /\ pc \in {"select", "exited"}
            /\ status \in {"running", "exit0"}
            /\ submits = 0
            /\ fetches = 0
            /\ last_req = NoReq
            /\ started = <<>>
            /\ shown = <<>>
            /\ summary = {}
            /\ files = {OutputPath(c) : c \in Range(cards)})

\* --missing on a catalog of two entries that both have their file: the run
\* has ended with exit status 0.
C11_Witness ==
    /\ pc = "exited"
    /\ status = "exit0"
    /\ args.missing
    /\ Len(cards) = 2
    /\ files = {OutputPath(cards[1]), OutputPath(cards[2])}

\* C12 (the dry run generates nothing).  With --dry-run, whatever the
\* selector, the run never enters generate_batch: it sends no submit, no
\* query and no fetch and writes no file; when the selection yields a list,
\* its one step builds the prompt of each selected entry, in order, and
\* returns.
C12_DryRunGeneratesNothing ==
    /\ [](args.dry_run =>
            /\ pc \in {"select", "exited"}
            /\ submits = 0
            /\ fetches = 0
            /\ last_req = NoReq
            /\ started = <<>>
            /\ inflight = {}
            /\ written = {}
            /\ summary = {})
    /\ [][(pc = "select" /\ args.dry_run) =>
            /\ pc' = "exited"
            /\ files' = files
            /\ written' = written]_vars
    /\ [][(pc = "select" /\ args.dry_run /\ Selection.kind = "list") =>
            /\ status' = "ok"
            /\ targets' = Selection.cards
            /\ Len(shown') = Len(targets')
            /\ \A k \in 1..Len(targets') :
                    shown'[k] = build_prompt(targets'[k])]_vars

\* A dry run in --missing mode that showed the prompts of two missing
\* entries.
C12_Witness ==
    /\ pc = "exited"
    /\ status = "ok"
    /\ args.dry_run
    /\ args.card = {}
    /\ args.missing
    /\ files = {}
    /\ Len(targets) = 2
    /\ shown = <<build_prompt(targets[1]), build_prompt(targets[2])>>

---------------------------------------------------------------------------
(* Properties of the workflow graph and of the prompt *)

\* The seeds a graph is rebuilt with for comparison: 0, 7 and 2^32 - 1.
OtherSeeds == {SeedOf(0, 0), SeedOf(0, 7), SeedOf(SeedHalf - 1, SeedHalf - 1)}

\* Two graphs have the same nodes, classes and inputs, and equal values in
\* every input but the "seed" input of node "6".
SameButSeed(g1, g2) ==
    /\ DOMAIN g1 = DOMAIN g2
    /\ \A n \in DOMAIN g1 :
        /\ g1[n].class_type = g2[n].class_type
        /\ DOMAIN g1[n].inputs = DOMAIN g2[n].inputs
        /\ \A f \in DOMAIN g1[n].inputs :
            (n = "6" /\ f = "seed") \/ g1[n].inputs[f] = g2[n].inputs[f]

\* C13 (seed forwarding in the workflow graph).  The graph a submit carries,
\* built from generate's (prompt, seed), holds that seed unaltered as the
\* "seed" input of its KSampler node; rebuilt from the same prompt with any
\* other seed it differs in that input and in nothing else, and rebuilt with
\* the same seed it is the same graph.
C13_SeedForwarding ==
    last_req.op = "submit" =>
        LET g == last_req.workflow
        IN  /\ g["6"].class_type = "KSampler"
            /\ g["6"].inputs.seed = last_req.seed
            /\ \A s2 \in OtherSeeds :
                LET g2 == build_flux_workflow(last_req.prompt, s2)
                IN  /\ g2["6"].inputs.seed = s2
                    /\ SameButSeed(g, g2)
                    /\ (s2 = last_req.seed => g2 = g)
                    /\ (s2 # last_req.seed => g2 # g)

\* A submit that carries the largest seed, 2^32 - 1, in its sampler node.
C13_Witness ==
    /\ last_req.op = "submit"
    /\ last_req.seed = SeedOf(SeedHalf - 1, SeedHalf - 1)
    /\ last_req.workflow["6"].inputs.seed = SeedOf(SeedHalf - 1, SeedHalf - 1)

\* The id of entry c is a key of _NAME_OVERRIDES.
HasOverride(c) == IdText(c) \in DOMAIN _NAME_OVERRIDES

\* The prompt p of entry c, when c has an override: its subject is the
\* override text and none of its parts is the literal-name clause or the
\* corporation clause of the entry's name.
OverrideRespected(c, p) ==
    HasOverride(c) =>
        /\ p[1] = _NAME_OVERRIDES[IdText(c)]
        /\ \A k \in 1..Len(p) :
            /\ p[k] # literal_name_clause(card_data[c].name)
            /\ p[k] # corporation_clause(card_data[c].name)

\* C14 (name override precedence).  For every entry whose id is in the
\* override table, whatever its type (corporation, another type, or none),
\* the prompt shown by the dry run and the prompt submitted to the backend
\* start with the registered override text and hold neither the literal-name
\* clause nor the corporation clause.
C14_OverridePrecedence ==
    /\ \A k \in 1..Len(shown) : OverrideRespected(targets[k], shown[k])
    /\ last_req.op = "submit" => OverrideRespected(targets[i], last_req.prompt)

\* The prompt of a corporation whose id has an override has been submitted.
C14_Witness ==
    /\ last_req.op = "submit"
    /\ HasOverride(targets[i])
    /\ card_data[targets[i]].type = {"corporation"}
    /\ last_req.prompt[1] = _NAME_OVERRIDES[IdText(targets[i])]

---------------------------------------------------------------------------
(* Properties of the pacing and of the failure paths *)

\* C15 (linear backoff schedule).  The k-th wait of an entry lasts
\* RETRY_DELAY * k.  A wait is taken only after a failed attempt that is not
\* the last of the budget, it is the wait of that attempt's number, and the
\* next attempt starts right after it; the failure of the last attempt is
\* followed by no wait, and so is a successful attempt.
C15_LinearBackoff ==
    /\ [](\A k \in 1..Len(delays) : delays[k] = RETRY_DELAY * k)
    /\ [](pc \in GeneratePoints \cup {"gen_returned"} =>
            (calls = failures + 1 /\ Len(delays) = failures))
    /\ [](pc = "gen_raised" => Len(delays) = failures - 1)
    /\ [][(pc = "gen_raised" /\ failures < max_retries) =>
            /\ delays' = Append(delays, RETRY_DELAY * failures)
            /\ pc' = "submit"
            /\ calls' = failures + 1]_vars
    /\ [][(pc = "gen_raised" /\ failures >= max_retries) =>
            /\ delays' = delays
            /\ pc' = "card_raised"]_vars
    /\ [][Len(delays') > Len(delays) =>
            (pc = "gen_raised" /\ failures < max_retries)]_vars
    /\ [][pc = "gen_returned" => Len(delays') <= Len(delays)]_vars

\* The configured budget exhausted: waits of RETRY_DELAY and 2 * RETRY_DELAY
\* after the first two failures, none after the third.
C15_Witness ==
    /\ pc = "card_raised"
    /\ max_retries = MAX_RETRIES
    /\ failures = MAX_RETRIES
    /\ delays = <<RETRY_DELAY, 2 * RETRY_DELAY>>

\* C16 (post-processing failures are not retried).  When process_and_save
\* fails after a successful generation, the exception leaves generate_card
\* with no further client.generate call and no further request; generate_batch
\* catches it, counts the entry as failed, appends nothing to its results and
\* goes to the next entry; no entry is started twice.
C16_SaveFailureNotRetried ==
    /\ [][pc = "gen_returned" => pc' \in {"loop", "card_raised"}]_vars
    /\ [][(pc = "gen_returned" /\ pc' = "card_raised") =>
            /\ TheOne(exc').kind \in {"DecodeError", "WriteError"}
            /\ TheOne(exc').at = 0
            /\ calls' = calls
            /\ submits' = submits
            /\ fetches' = fetches
            /\ last_req' = last_req]_vars
    /\ [][(pc = "card_raised" /\ TheOne(exc).at = 0) =>
            /\ pc' = "loop"
            /\ i' = i + 1
            /\ failed' = Append(failed, targets[i])
            /\ saved' = saved
            /\ results' = results
            /\ gen_failed' = gen_failed
            /\ last_req' = NoReq]_vars
    /\ [](\A j, k \in 1..Len(started) : j # k => started[j] # started[k])

\* A finished batch whose first entry failed in process_and_save (not in
\* generation) and whose second entry was persisted.
C16_Witness ==
    /\ pc = "exited"
    /\ summary = {[count |-> 1, total |-> 2]}
    /\ failed = <<targets[1]>>
    /\ gen_failed = <<>>
    /\ saved = <<targets[2]>>

\* The points of the task inside generate_card.
EntryPoints ==
    {"submit", "wait", "completed", "gen_raised", "gen_returned", "card_raised"}

\* The seed <<hi, lo>> is an integer of [0, 2^32).
InSeedRange(s) ==
    /\ s[1] \in 0..(SeedHalf - 1)
    /\ s[2] \in 0..(SeedHalf - 1)

\* C17 (seed assignment per entry).  The seed of an entry is fixed when
\* generate_card is entered, before the first attempt: --seed's value when
\* there is one, 0 included, otherwise a draw of [0, 2^32); it does not change
\* while the entry is processed, and every submit of the entry, retries
\* included, carries that seed and the prompt of the entry, in the graph too.
C17_SeedPerEntry ==
    /\ [](pc \in EntryPoints =>
            /\ seed # {}
            /\ InSeedRange(TheOne(seed))
            /\ (args.seed # {} => seed = args.seed))
    /\ [][(seed = {} /\ seed' # {}) =>
            /\ pc = "loop"
            /\ calls' = 1
            /\ submits' = 0
            /\ (args.seed = {} => TheOne(seed') \in RandomSeeds)]_vars
    /\ [][(seed # {} /\ seed' # {}) => seed' = seed]_vars
    /\ [][seed' = {} => pc' \in {"loop", "exited"}]_vars
    /\ [](last_req.op = "submit" =>
            /\ last_req.seed = TheOne(seed)
            /\ last_req.prompt = build_prompt(targets[i])
            /\ last_req.workflow["6"].inputs.seed = TheOne(seed)
            /\ last_req.workflow["4"].inputs.clip_l = build_prompt(targets[i])
            /\ last_req.workflow["4"].inputs.t5xxl = build_prompt(targets[i]))

\* --seed 0: the submit of the last attempt of the budget carries seed 0.
C17_Witness ==
    /\ args.seed = {SeedOf(0, 0)}
    /\ calls = MAX_RETRIES
    /\ last_req.op = "submit"
    /\ last_req.seed = SeedOf(0, 0)

\* C18 (file existence is the completion marker).  The output directory
\* changes only in process_and_save, that is after generation returned bytes
\* for the entry, and only at the entry's own path; generation, failed or
\* not, leaves it as it was.  Hence the file of an entry whose generation
\* failed has not been written by this run; when the batch is over every
\* persisted entry is out of the missing set a later run computes, and in
\* --missing mode (every selected entry had no file) every entry whose
\* generation failed is still in it.
C18_FileIsCompletionMarker ==
    /\ [][(files' # files \/ written' # written) =>
            /\ pc = "gen_returned"
            /\ image_data # {}
            /\ TheOne(image_data).job = JobFor(i, attempt)
            /\ files \subseteq files'
            /\ files' \ files \subseteq {OutputPath(targets[i])}
            /\ written' = written \cup {OutputPath(targets[i])}]_vars
    /\ [][(pc \in GeneratePoints \/ pc = "gen_raised") =>
            (files' = files /\ written' = written)]_vars
    /\ [](\A c \in Range(gen_failed) : OutputPath(c) \notin written)
    /\ [](\A c \in Range(saved) :
            /\ OutputPath(c) \in written
            /\ c \notin Range(get_missing_cards(cards, files)))
    /\ []((InBatch /\ args.card = {} /\ args.missing) =>
            \A c \in Range(gen_failed) :
                c \in Range(get_missing_cards(cards, files)))

\* A finished --missing run over two entries: generation failed for the
\* first, which is still missing, and the second was persisted.
C18_Witness ==
    /\ pc = "exited"
    /\ summary # {}
    /\ args.card = {}
    /\ args.missing
    /\ Len(targets) = 2
    /\ gen_failed = <<targets[1]>>
    /\ saved = <<targets[2]>>
    /\ get_missing_cards(cards, files) = <<targets[1]>>

\* C19 (inter-item pacing).  One inter-item sleep is taken at the end of the
\* iteration of each entry but the last, whether the entry was persisted or
\* failed: none before the first entry, i - 1 while entry i is processed, and
\* at the summary n - 1 for n >= 1 selected entries, none for n = 0.
C19_InterItemPacing ==
    /\ []((InBatch /\ pc \in EntryPoints) => pauses = i - 1)
    /\ []((InBatch /\ pc = "loop" /\ i <= Len(targets)) => pauses = i - 1)
    /\ [](summary # {} =>
            pauses = IF Len(targets) = 0 THEN 0 ELSE Len(targets) - 1)
    /\ [][pauses' # pauses =>
            /\ pauses' = pauses + 1
            /\ pc \in {"gen_returned", "card_raised"}
            /\ pc' = "loop"
            /\ i < Len(targets)]_vars
    /\ [][(pc \in {"gen_returned", "card_raised"} /\ pc' = "loop") =>
            pauses' = IF i < Len(targets) THEN pauses + 1 ELSE pauses]_vars

\* A finished batch of two entries, the first of which failed: one sleep.
C19_Witness ==
    /\ summary # {}
    /\ Len(targets) = 2
    /\ failed = <<targets[1]>>
    /\ pauses = 1

---------------------------------------------------------------------------
(* Termination of the polling loop *)

\* C20 (polling always terminates), as claimed.  For every poll_interval >= 0
\* and every timeout, wait_for_completion eventually ends: when every query is
\* answered and no answer holds the job, that end is TimeoutError.
C20_PollingTerminates == <>(pc \in {"completed", "gen_raised"})

---------------------------------------------------------------------------
(* Properties of the range selection *)

\* --start/--end is the selector in force and the ids given are in the
\* catalog.
ValidRange ==
    /\ args.card = {}
    /\ ~args.missing
    /\ args.start # {} \/ args.end # {}
    /\ args.start \subseteq Range(cards)
    /\ args.end \subseteq Range(cards)

\* The catalog position (from 1) the range starts at: that of --start, the
\* first when --start is not given.
RangeFirst ==
    IF args.start # {} THEN FirstIndex(cards, TheOne(args.start)) ELSE 1

\* The catalog position the range ends at: that of --end, the last when
\* --end is not given.
RangeLast ==
    IF args.end # {} THEN FirstIndex(cards, TheOne(args.end)) ELSE Len(cards)

\* C21 (range selection is inclusive by catalog order).  With --start and/or
\* --end naming ids of the catalog, the selected list holds exactly the
\* entries at catalog positions RangeFirst..RangeLast, both included, in
\* catalog order (none when --start comes after --end), whichever output
\* files exist; the selection leaves the catalog and the files as they are.
C21_RangeInclusive ==
    /\ [][(pc = "select" /\ ValidRange) =>
            /\ pc' \in {"loop", "exited"}
            /\ status' \in {"running", "ok"}
            /\ Len(targets') =
                   (IF RangeLast >= RangeFirst
                    THEN RangeLast - RangeFirst + 1 ELSE 0)
            /\ \A k \in 1..Len(targets') :
                    targets'[k] = cards[RangeFirst + k - 1]
            /\ cards' = cards
            /\ files' = files]_vars
    /\ []((pc # "select" /\ ValidRange) =>
            /\ \A k \in RangeFirst..RangeLast : cards[k] \in Range(targets)
            /\ \A k \in 1..Len(cards) :
                    (k < RangeFirst \/ k > RangeLast) =>
                        cards[k] \notin Range(targets))

\* A catalog of three entries, --start at the second and --end at the third:
\* both are selected, the second although its output file exists.
C21_Witness ==
    /\ pc # "select"
    /\ Len(cards) = 3
    /\ args.card = {}
    /\ ~args.missing
    /\ args.start = {cards[2]}
    /\ args.end = {cards[3]}
    /\ OutputPath(cards[2]) \in files
    /\ targets = <<cards[2], cards[3]>>

===========================================================================
